---- MODULE Spec2Model ----
(***************************************************************************)
(* Model of the tool invocation backend in src-tauri/src/lib.rs:           *)
(* tool discovery, environment shaping, one-shot execution, the REPL       *)
(* exchange with its output filter, and the auth diagnosis.                *)
(*                                                                         *)
(* Text is modelled as a sequence of tokens.  A token is a fixed piece of  *)
(* text (a piece of a marker the code searches for, a separator, a blank,  *)
(* or some other text).  The tokens are chosen so that a marker occurs in  *)
(* a text exactly where its tokens occur in the token sequence; then       *)
(* "contains", "starts_with", "replace", "trim" and "lines" on the text    *)
(* are the same operations on the token sequence.  Option<T> is a          *)
(* sequence of length at most one: None is << >> and Some(x) is << x >>.   *)
(*                                                                         *)
(* `session` is the exchange of run_ruchy_repl with its subprocess, step   *)
(* by step: the position of the caller, the subprocess, the three pipes    *)
(* between them, and the events so far.                                    *)
(***************************************************************************)
EXTENDS Naturals, Sequences, FiniteSets

VARIABLES platform, hostEnv, fs, last, childEnv, session

vars == << platform, hostEnv, fs, last, childEnv, session >>

(***************************************************************************)
(* Bounds of the model.                                                    *)
(***************************************************************************)
MaxInstalled == 2
MaxPathLen == 3
MaxStdoutLines == 2
MaxStderrLines == 1
MaxStreamLen == 2
PipeCapacity == 1
MaxOutput == 2
MaxCommandLines == 2
MaxSpawns == 2

(***************************************************************************)
(* Text primitives of the Rust standard library.                           *)
(***************************************************************************)
None == << >>

Some(x) == << x >>

NL == "\n"

SP == " "

\* char::is_whitespace on the tokens of the model
IsWhitespace(t) == t \in {SP, NL}

\* str::starts_with
StartsWith(s, p) == Len(p) <= Len(s) /\ SubSeq(s, 1, Len(p)) = p

\* str::contains
Contains(s, p) == \E i \in 0..Len(s) : i + Len(p) <= Len(s) /\ SubSeq(s, i + 1, i + Len(p)) = p

RECURSIVE TrimStart(_)
\* str::trim_start
TrimStart(s) == IF s # << >> /\ IsWhitespace(Head(s)) THEN TrimStart(Tail(s)) ELSE s

RECURSIVE TrimEnd(_)
\* str::trim_end
TrimEnd(s) == IF s # << >> /\ IsWhitespace(s[Len(s)]) THEN TrimEnd(SubSeq(s, 1, Len(s) - 1)) ELSE s

\* a text without its last newline
TrimEndNewline(s) == IF s # << >> /\ s[Len(s)] = NL THEN SubSeq(s, 1, Len(s) - 1) ELSE s

\* str::trim
Trim(s) == TrimEnd(TrimStart(s))

RECURSIVE Replace(_, _, _)
\* str::replace: every non-overlapping match of pat, left to right, becomes to
Replace(s, pat, to) ==
    IF s = << >> THEN << >>
    ELSE IF StartsWith(s, pat) THEN to \o Replace(SubSeq(s, Len(pat) + 1, Len(s)), pat, to)
    ELSE << Head(s) >> \o Replace(Tail(s), pat, to)

RECURSIVE SplitLines(_, _)
\* str::lines, with cur the line being read: a line ends at a newline, and a
\* last line without a newline is a line unless it is empty
SplitLines(s, cur) ==
    IF s = << >> THEN (IF cur = << >> THEN << >> ELSE << cur >>)
    ELSE IF Head(s) = NL THEN << cur >> \o SplitLines(Tail(s), << >>)
    ELSE SplitLines(Tail(s), Append(cur, Head(s)))

Lines(s) == SplitLines(s, << >>)

RECURSIVE Join(_, _)
\* [String]::join
Join(ls, sep) ==
    IF ls = << >> THEN << >>
    ELSE IF Len(ls) = 1 THEN ls[1]
    ELSE ls[1] \o sep \o Join(Tail(ls), sep)

\* String::from_utf8_lossy: an invalid byte sequence becomes U+FFFD
FromUtf8Lossy(bytes) == [i \in DOMAIN bytes |-> IF bytes[i] = "<invalid>" THEN "<U+FFFD>" ELSE bytes[i]]

RECURSIVE SeqsUpTo(_, _)
\* all sequences over S of length at most n
SeqsUpTo(S, n) ==
    IF n = 0 THEN {<< >>}
    ELSE LET shorter == SeqsUpTo(S, n - 1)
         IN  shorter \cup {Append(s, x) : s \in shorter, x \in S}

Ok(v) == [kind |-> "Ok", val |-> v]

Err(e) == [kind |-> "Err", val |-> e]

IsWindows == platform = "windows"

(***************************************************************************)
(* Tool discovery: find_tool_in_path, check_tool_at_path,                  *)
(* check_tool_availability.                                                *)
(***************************************************************************)
\* the search utility of the platform
search_command == IF IsWindows THEN << "where" >> ELSE << "which" >>

\* w is what running the search utility gives: whether it could be spawned,
\* its exit status, its stdout
find_tool_in_path(w) ==
    IF ~w.spawned
    THEN Err(<< "Failed to execute " >> \o search_command \o << ": ", "<io error>" >>)
    ELSE LET path == Trim(FromUtf8Lossy(w.stdout))
             ls == Lines(path)
             first_path == IF ls = << >> THEN << >> ELSE Trim(ls[1])
         IN  IF w.success /\ path # << >> /\ first_path # << >>
             THEN Ok(Some(first_path))
             ELSE Ok(None)

check_tool_at_path(path) == path \in fs

RegisteredTools == {"azure-resource-finder", "ruchy", "az"}

common_paths(tool) ==
    IF tool = "azure-resource-finder" THEN
        << "/usr/local/bin/azure-resource-finder",
           "/opt/homebrew/bin/azure-resource-finder",
           "C:\\Program Files\\azure-resource-finder\\azure-resource-finder.exe",
           "C:\\azure-resource-finder\\azure-resource-finder.exe" >>
    ELSE IF tool = "ruchy" THEN
        << "/Users/denistu/.cargo/bin/ruchy",
           "/usr/local/bin/ruchy",
           "/opt/homebrew/bin/ruchy",
           "C:\\Users\\%USERNAME%\\.cargo\\bin\\ruchy.exe",
           "C:\\cargo\\bin\\ruchy.exe" >>
    ELSE IF tool = "az" THEN
        << "/usr/local/bin/az",
           "/opt/homebrew/bin/az",
           "C:\\Program Files (x86)\\Microsoft SDKs\\Azure\\CLI2\\wbin\\az.cmd",
           "C:\\Program Files\\Microsoft SDKs\\Azure\\CLI2\\wbin\\az.cmd" >>
    ELSE << >>

not_found_message(tool) ==
    IF tool = "azure-resource-finder"
    THEN << "Azure Resource Finder not found. Please install it or configure the path in settings." >>
    ELSE IF tool = "ruchy"
    THEN << "Ruchy not found. Please install it with 'cargo install ruchy' or configure the path in settings." >>
    ELSE << "Azure CLI not found. Please install it from https://docs.microsoft.com/en-us/cli/azure/install-azure-cli" >>

\* the loop over common_paths: the candidates that exist, as indices
existing_candidates(tool) == {i \in DOMAIN common_paths(tool) : check_tool_at_path(common_paths(tool)[i])}

first_candidate_Last(tool) == CHOOSE i \in existing_candidates(tool) : \A j \in existing_candidates(tool) : j <= i

\* the loop returns at the first candidate that exists
first_candidate(tool) == CHOOSE i \in existing_candidates(tool) : \A j \in existing_candidates(tool) : i <= j

unknown_tool_arm_Err(tool) == Err(<< "Unknown tool: ", tool >>)

\* the `_` arm of the match
unknown_tool_arm(tool) ==
    Ok([name |-> tool, available |-> FALSE, path |-> None, error |-> Some(<< "Unknown tool: ", tool >>)])

\* "Try to find in PATH": the match on find_tool_in_path
search_arm(tool, w) ==
    LET found == find_tool_in_path(w)
    IN  IF found.kind = "Ok" /\ found.val # None
        THEN Ok([name |-> tool, available |-> TRUE, path |-> found.val, error |-> None])
        ELSE IF found.kind = "Ok"
        THEN Ok([name |-> tool, available |-> FALSE, path |-> None, error |-> Some(not_found_message(tool))])
        ELSE Ok([name |-> tool, available |-> FALSE, path |-> None,
                 error |-> Some(<< "Failed to search for ", tool, ": " >> \o found.val)])

check_tool_availability(tool, w) ==
    IF tool \in RegisteredTools
    THEN IF existing_candidates(tool) # {}
         THEN Ok([name |-> tool, available |-> TRUE,
                  path |-> Some(<< common_paths(tool)[first_candidate(tool)] >>), error |-> None])
         ELSE search_arm(tool, w)
    ELSE unknown_tool_arm(tool)

(***************************************************************************)
(* The environment handed to a child: the process environment, cloned,     *)
(* with PATH extended and AZURE_CONFIG_DIR set.                            *)
(***************************************************************************)
home_var == IF IsWindows THEN "USERPROFILE" ELSE "HOME"

path_separator == IF IsWindows THEN << ";" >> ELSE << ":" >>

\* the well-known bin directories of the platform, in the order of the source
common_bin_paths ==
    IF IsWindows
    THEN << << "C:\\Program Files", " (x86)", "\\Microsoft SDKs\\Azure\\CLI2\\wbin" >>,
            << "C:\\Program Files", "\\Microsoft SDKs\\Azure\\CLI2\\wbin" >> >>
    ELSE << << "/opt/homebrew/", "bin" >>,
            << "/opt/homebrew/", "s", "bin" >>,
            << "/usr/local/", "bin" >>,
            << "/usr/local/", "s", "bin" >> >>

\* HashMap::get / std::env::var: Some(value) or None
env_get(env, key) == IF key \in DOMAIN env THEN Some(env[key]) ELSE None

\* HashMap::insert
env_insert(env, key, value) == [k \in DOMAIN env \cup {key} |-> IF k = key THEN value ELSE env[k]]

push_common_path_Always(new_path, common_path) ==
    IF new_path # << >> THEN new_path \o path_separator \o common_path ELSE common_path

\* the body of `for common_path in common_paths`
push_common_path(new_path, common_path) ==
    IF ~Contains(new_path, common_path)
    THEN IF new_path # << >> THEN new_path \o path_separator \o common_path ELSE common_path
    ELSE new_path

RECURSIVE extend_path(_, _)
\* the loop over common_paths, from the i-th directory on
extend_path(new_path, i) ==
    IF i > Len(common_bin_paths) THEN new_path
    ELSE extend_path(push_common_path(new_path, common_bin_paths[i]), i + 1)

\* env.get("PATH").unwrap_or(&String::new())
current_path(env) == IF env_get(env, "PATH") = None THEN << >> ELSE env["PATH"]

augment_path(path) == extend_path(path, 1)

azure_config_dir(home) == home \o << "/.azure" >>

\* the mapping built by check_azure_auth_status and test_azure_cli
build_env(host) ==
    LET env1 == env_insert(host, "PATH", augment_path(current_path(host)))
    IN  IF env_get(host, home_var) # None
        THEN env_insert(env1, "AZURE_CONFIG_DIR", azure_config_dir(host[home_var]))
        ELSE env1

\* the mapping built by run_azure_resource_finder, which sets AZURE_CONFIG_DIR
\* once more when the directory exists
build_env_finder(host, azure_dir_exists) ==
    LET env2 == build_env(host)
    IN  IF env_get(host, home_var) # None /\ azure_dir_exists
        THEN env_insert(env2, "AZURE_CONFIG_DIR", azure_config_dir(host[home_var]))
        ELSE env2

process_env_after_SetVar(host, env) == env

\* the process environment after a call: `env` is a local map that is handed
\* to the child with Command::envs; nothing writes the process environment
process_env_after(host, env) == host

(***************************************************************************)
(* run_azure_resource_finder                                               *)
(***************************************************************************)
auth_failed_output(out) ==
    [stdout |-> FromUtf8Lossy(out.stdout),
     stderr |-> << "Azure authentication failed. Please ensure you are logged in with 'az login' and have the necessary permissions.\n\nError details:\n" >>
                \o FromUtf8Lossy(out.stderr),
     success |-> FALSE]

command_output_AlwaysSuccess(out) ==
    [stdout |-> FromUtf8Lossy(out.stdout), stderr |-> FromUtf8Lossy(out.stderr), success |-> TRUE]

\* the CommandOutput built from the captured output
command_output(out) ==
    [stdout |-> FromUtf8Lossy(out.stdout), stderr |-> FromUtf8Lossy(out.stderr), success |-> out.success]

is_auth_error(stderr) ==
    Contains(stderr, << "DefaultAzureCredential" >>) \/ Contains(stderr, << "failed to acquire a token" >>)

\* what the call returns once the tool is resolved; out is what launching the
\* executable gives: whether it could be launched, its exit status, its output
finder_result(out) ==
    IF ~out.spawned
    THEN Err(<< "Failed to execute azure-resource-finder: ", "<io error>" >>)
    ELSE IF ~out.success /\ is_auth_error(FromUtf8Lossy(out.stderr))
    THEN Ok(auth_failed_output(out))
    ELSE Ok(command_output(out))

\* tool_info.error.unwrap_or_else(|| default)
unavailable_error(tool_info, default) ==
    IF tool_info.error # None THEN tool_info.error[1] ELSE default

\* the whole call: [result, env], env being the mapping handed to the child
\* (None when the call returns before it builds one)
run_azure_resource_finder(w, azure_dir_exists, out) ==
    LET checked == check_tool_availability("azure-resource-finder", w)
    IN  IF checked.kind = "Err" THEN [result |-> checked, env |-> None]
        ELSE IF ~checked.val.available
        THEN [result |-> Err(unavailable_error(checked.val, << "Azure Resource Finder not available" >>)),
              env |-> None]
        ELSE [result |-> finder_result(out), env |-> Some(build_env_finder(hostEnv, azure_dir_exists))]

(***************************************************************************)
(* run_ruchy_repl                                                          *)
(***************************************************************************)
return_sentinel == << "Error:", " return:" >>

\* the condition under which a line is dropped
is_noise(line) ==
    \/ Contains(line, << "Welcome to Ruchy REPL" >>)
    \/ Contains(line, << "Type :help" >>)
    \/ Contains(line, << "Goodbye!" >>)
    \/ StartsWith(line, << "ruchy>" >>)
    \/ Trim(line) = << >>

\* what is pushed for a line that is kept
filter_line(line) ==
    IF StartsWith(line, return_sentinel)
    THEN Trim(Replace(line, return_sentinel, << >>))
    ELSE line

RECURSIVE filtered_output(_)
\* the loop over the lines of the combined output
filtered_output(lines) ==
    IF lines = << >> THEN << >>
    ELSE IF ~is_noise(Head(lines))
    THEN << filter_line(Head(lines)) >> \o filtered_output(Tail(lines))
    ELSE filtered_output(Tail(lines))

combined_output(child) == FromUtf8Lossy(child.stdout) \o FromUtf8Lossy(child.stderr)

clean_output(child) == Trim(Join(filtered_output(Lines(combined_output(child))), << NL >>))

is_success(child) ==
    \/ ~StartsWith(clean_output(child), << "Error:" >>)
    \/ Contains(FromUtf8Lossy(child.stderr), return_sentinel)

\* what the call returns once ruchy is resolved; child is what the subprocess
\* gives: whether it was spawned, whether each write and the wait went
\* through, and what it wrote to its stdout and stderr
repl_result(child) ==
    IF ~child.spawned THEN Err(<< "Failed to spawn ruchy: ", "<io error>" >>)
    ELSE IF ~child.wrote_command THEN Err(<< "Failed to write to ruchy stdin: ", "<io error>" >>)
    ELSE IF ~child.wrote_quit THEN Err(<< "Failed to write exit command: ", "<io error>" >>)
    ELSE IF ~child.waited THEN Err(<< "Failed to read ruchy output: ", "<io error>" >>)
    ELSE Ok([stdout |-> clean_output(child),
             stderr |-> IF is_success(child) THEN << >> ELSE FromUtf8Lossy(child.stderr),
             success |-> is_success(child)])

run_ruchy_repl(w, child) ==
    LET checked == check_tool_availability("ruchy", w)
    IN  IF checked.kind = "Err" THEN checked
        ELSE IF ~checked.val.available
        THEN Err(unavailable_error(checked.val, << "Ruchy not available" >>))
        ELSE repl_result(child)

(***************************************************************************)
(* check_azure_auth_status and test_azure_cli                              *)
(***************************************************************************)
empty_json == << "{}" >>

\* String::from_utf8, which fails on an invalid byte sequence, then
\* serde_json::from_str(..).unwrap_or(json!({})): the text parses when it is
\* one JSON document, blanks around it allowed
parse_account_json(bytes) ==
    IF \E i \in DOMAIN bytes : bytes[i] = "<invalid>" THEN empty_json
    ELSE IF Trim(bytes) = << "<json document>" >> THEN Trim(bytes)
    ELSE empty_json

classify_auth_failure_SubscriptionsFirst(stderr, stdout) ==
    IF Contains(stderr, << "No subscriptions found" >>)
    THEN << "Authenticated but no subscriptions found. Please check your Azure account." >>
    ELSE IF Contains(stderr, << "Please run 'az login'" >>)
    THEN << "User not authenticated. Please run 'az login' in your terminal." >>
    ELSE IF Contains(stderr, << "DefaultAzureCredential" >>)
    THEN << "Authentication failed. Please ensure you are logged in with 'az login'." >>
    ELSE IF stderr # << >> THEN << "Authentication error: " >> \o stderr
    ELSE IF stdout # << >> THEN << "Unexpected output during authentication check." >>
    ELSE << "Unknown authentication error." >>

\* the if/else chain on the stderr and stdout of a failed `az account show`
classify_auth_failure(stderr, stdout) ==
    IF Contains(stderr, << "Please run 'az login'" >>)
    THEN << "User not authenticated. Please run 'az login' in your terminal." >>
    ELSE IF Contains(stderr, << "No subscriptions found" >>)
    THEN << "Authenticated but no subscriptions found. Please check your Azure account." >>
    ELSE IF Contains(stderr, << "DefaultAzureCredential" >>)
    THEN << "Authentication failed. Please ensure you are logged in with 'az login'." >>
    ELSE IF stderr # << >> THEN << "Authentication error: " >> \o stderr
    ELSE IF stdout # << >> THEN << "Unexpected output during authentication check." >>
    ELSE << "Unknown authentication error." >>

\* account_output.is_ok() && status.success()
account_succeeded(acct) == acct.spawned /\ acct.success

account_info(acct) == IF account_succeeded(acct) THEN parse_account_json(acct.stdout) ELSE empty_json

error_details(acct) ==
    IF ~account_succeeded(acct)
    THEN IF acct.spawned
         THEN classify_auth_failure(FromUtf8Lossy(acct.stderr), FromUtf8Lossy(acct.stdout))
         ELSE << "Failed to execute Azure CLI command." >>
    ELSE << >>

debug_info(env) ==
    [path |-> env_get(env, "PATH"),
     azure_config_dir |-> env_get(env, "AZURE_CONFIG_DIR"),
     home |-> env_get(hostEnv, home_var),
     platform |-> IF IsWindows THEN "windows" ELSE "unix"]

\* the whole call: [result, env]
check_azure_auth_status(w, acct) ==
    LET checked == check_tool_availability("az", w)
        env == build_env(hostEnv)
    IN  IF checked.kind = "Err" THEN [result |-> checked, env |-> None]
        ELSE IF ~checked.val.available
        THEN [result |-> Ok([azure_cli_available |-> FALSE, is_logged_in |-> FALSE,
                             account_info |-> empty_json, error |-> << "Azure CLI not found" >>]),
              env |-> None]
        ELSE [result |-> Ok([azure_cli_available |-> TRUE,
                             is_logged_in |-> account_succeeded(acct),
                             account_info |-> account_info(acct),
                             error |-> error_details(acct),
                             debug_info |-> debug_info(env)]),
              env |-> Some(env)]

version_info(ver) ==
    IF ver.spawned /\ ver.success
    THEN LET ls == Lines(FromUtf8Lossy(ver.stdout))
         IN  IF ls = << >> THEN << "Unknown version" >> ELSE ls[1]
    ELSE << "Azure CLI not available" >>

\* the whole call: [result, env]
test_azure_cli(ver, acct) ==
    LET env == build_env(hostEnv)
    IN  [result |-> Ok([version_available |-> ver.spawned /\ ver.success,
                        version_info |-> version_info(ver),
                        account_available |-> account_succeeded(acct),
                        account_info |-> account_info(acct),
                        error |-> error_details(acct),
                        debug_info |-> debug_info(env)]),
         env |-> Some(env)]

(***************************************************************************)
(* The inputs of the calls: what the outside world may answer.             *)
(***************************************************************************)
Platforms == {"unix", "windows"}

ToolIds == RegisteredTools \cup {"kubectl", ""}

AllCandidates == UNION {{common_paths(t)[i] : i \in DOMAIN common_paths(t)} : t \in RegisteredTools}

NotSpawned == [spawned |-> FALSE, success |-> FALSE, stdout |-> << >>, stderr |-> << >>]

Exited(success, stdout, stderr) == [spawned |-> TRUE, success |-> success, stdout |-> stdout, stderr |-> stderr]

\* answers of `which` / `where`
WhichOutcomes ==
    {NotSpawned,
     Exited(FALSE, << >>, << >>),
     Exited(FALSE, << "/found/tool", NL >>, << >>),
     Exited(TRUE, << >>, << >>),
     Exited(TRUE, << SP, NL >>, << >>),
     Exited(TRUE, << "/found/tool", NL >>, << >>),
     Exited(TRUE, << "/found/tool" >>, << >>),
     Exited(TRUE, << NL, SP, "/found/tool", SP, NL >>, << >>),
     Exited(TRUE, << "/found/tool", NL, "/other/tool", NL >>, << >>)}

SmallWhich == {NotSpawned, Exited(TRUE, << >>, << >>), Exited(TRUE, << "/found/tool", NL >>, << >>)}

\* answers of azure-resource-finder
FinderTokens == {"DefaultAzureCredential", "failed to acquire a token", "text", "<invalid>"}

\* with a stderr of at most n tokens
FinderOutcomes(n) ==
    {NotSpawned} \cup
    {Exited(ok, so, se) : ok \in BOOLEAN, so \in SeqsUpTo({"text", "<invalid>"}, 1),
                          se \in SeqsUpTo(FinderTokens, n)}

SmallFinder == {NotSpawned, Exited(TRUE, << "text" >>, << >>), Exited(FALSE, << >>, << "text" >>)}

\* answers of `az account show` and `az --version`
AuthTokens == {"Please run 'az login'", "No subscriptions found", "DefaultAzureCredential", "text"}

\* with a stderr of at most n tokens
AccountOutcomes(n) ==
    {NotSpawned} \cup
    {Exited(ok, so, se) : ok \in BOOLEAN,
                          so \in {<< >>, << "text" >>, << "<json document>", NL >>, << "<json document>", "<invalid>" >>},
                          se \in SeqsUpTo(AuthTokens, n)}

SmallAccount ==
    {NotSpawned, Exited(TRUE, << "<json document>", NL >>, << >>), Exited(FALSE, << >>, << "Please run 'az login'" >>)}

VersionOutcomes ==
    {NotSpawned, Exited(FALSE, << >>, << "text" >>), Exited(TRUE, << >>, << >>),
     Exited(TRUE, << "azure-cli 2.0", NL, "text", NL >>, << >>)}

\* lines a ruchy subprocess may write
ReplLines ==
    {<< "Welcome to Ruchy REPL" >>,
     << "Type :help" >>,
     << "Goodbye!" >>,
     << "ruchy>", SP, "42" >>,
     << SP >>,
     << "42" >>,
     << SP, "42" >>,
     << "42", SP, "Goodbye!" >>,
     << "Error:", " return:", SP, "42" >>,
     << "Error:", " return:", SP, "Error:", SP, "division by zero" >>,
     << "Error:", SP, "division by zero" >>}

RECURSIVE Terminated(_)
\* the text of the lines, each ended by a newline
Terminated(ls) == IF ls = << >> THEN << >> ELSE Head(ls) \o << NL >> \o Terminated(Tail(ls))

\* the text a stream carries: whole lines, or whole lines whose last newline
\* is missing
StreamTexts(n) ==
    LET whole == {Terminated(ls) : ls \in SeqsUpTo(ReplLines, n)}
    IN  whole \cup {TrimEndNewline(t) : t \in whole}

ReplChild(spawned, wrote_command, wrote_quit, waited, stdout, stderr) ==
    [spawned |-> spawned, wrote_command |-> wrote_command, wrote_quit |-> wrote_quit,
     waited |-> waited, stdout |-> stdout, stderr |-> stderr]

ReplFailures ==
    {ReplChild(FALSE, FALSE, FALSE, FALSE, << >>, << >>),
     ReplChild(TRUE, FALSE, FALSE, FALSE, << >>, << >>),
     ReplChild(TRUE, TRUE, FALSE, FALSE, << >>, << >>),
     ReplChild(TRUE, TRUE, TRUE, FALSE, << >>, << >>)}

\* with at most n lines on stdout and m lines on stderr
ReplOutcomes(n, m) ==
    ReplFailures \cup
    {ReplChild(TRUE, TRUE, TRUE, TRUE, so, se) : so \in StreamTexts(n), se \in StreamTexts(m)}

SmallRepl ==
    ReplFailures \cup
    {ReplChild(TRUE, TRUE, TRUE, TRUE, << "42", NL >>, << >>),
     ReplChild(TRUE, TRUE, TRUE, TRUE, << >>, << "Error:", SP, "division by zero", NL >>)}

HomeVarOf(plat) == IF plat = "windows" THEN "USERPROFILE" ELSE "HOME"

\* a process environment from the values of PATH, the home variable and
\* AZURE_CONFIG_DIR, each an Option
MkEnv(plat, path, home, config) ==
    LET dom == (IF path # None THEN {"PATH"} ELSE {})
               \cup (IF home # None THEN {HomeVarOf(plat)} ELSE {})
               \cup (IF config # None THEN {"AZURE_CONFIG_DIR"} ELSE {})
    IN  [k \in dom |-> IF k = "PATH" THEN path[1]
                       ELSE IF k = "AZURE_CONFIG_DIR" THEN config[1]
                       ELSE home[1]]

PathTokens(plat) ==
    IF plat = "windows"
    THEN {"C:\\Program Files", " (x86)", "\\Microsoft SDKs\\Azure\\CLI2\\wbin", ";"}
    ELSE {"/opt/homebrew/", "/usr/local/", "s", "bin", ":"}

DefaultEnv(plat) == MkEnv(plat, Some(<< "/usr/bin" >>), Some(<< "/home/u" >>), None)

HostEnvs(plat) ==
    {MkEnv(plat, path, home, config) :
        path \in {None} \cup {Some(p) : p \in SeqsUpTo(PathTokens(plat), MaxPathLen)},
        home \in {None, Some(<< "/home/u" >>)},
        config \in {None, Some(<< "/etc/azure" >>)}}

\* sets of installed candidate paths, at most MaxInstalled of them
InstalledSets(candidates) == {S \in SUBSET candidates : Cardinality(S) <= MaxInstalled}

(***************************************************************************)
(* The calls of the entry points.  `last` records the last call: its       *)
(* arguments, the answers of the outside world it consumed, and its        *)
(* result; childEnv is the environment a child of the call is given.       *)
(* Calls share no state, so the model takes them one at a time: a call     *)
(* starts when no call is recorded, and return_to_caller hands the result  *)
(* to the caller and drops the record.                                     *)
(***************************************************************************)
NoCall == [op |-> "none"]

\* no exchange with a ruchy subprocess is under way; `spawned` counts the
\* subprocesses spawned so far
NoSessionAfter(spawned) ==
    [pc |-> "idle", which |-> NotSpawned, command |-> << >>, spawned |-> spawned,
     child |-> [state |-> "none", pending |-> << >>],
     pipes |-> [stdin |-> << >>, stdout |-> << >>, stderr |-> << >>],
     handles |-> {}, toWrite |-> << >>,
     captured |-> [stdout |-> << >>, stderr |-> << >>],
     log |-> << >>]

NoSession == NoSessionAfter(0)

Idle == last.op = "none"

return_to_caller ==
    /\ ~Idle
    /\ last' = NoCall
    /\ childEnv' = hostEnv
    /\ session' = NoSessionAfter(session.spawned)
    /\ UNCHANGED << platform, hostEnv, fs >>

\* the search utility runs only when no candidate path exists
ConsumedWhich(tool, w) ==
    IF tool \in RegisteredTools /\ existing_candidates(tool) = {} THEN Some(w) ELSE None

Resolved(tool, w) ==
    LET checked == check_tool_availability(tool, w)
    IN  checked.kind = "Ok" /\ checked.val.available

Consumed(tool, w, x) == IF Resolved(tool, w) THEN Some(x) ELSE None

EnvStep(r) ==
    /\ hostEnv' = (IF r.env # None THEN process_env_after(hostEnv, r.env[1]) ELSE hostEnv)
    /\ childEnv' = (IF r.env # None THEN r.env[1] ELSE hostEnv)
    /\ UNCHANGED << platform, fs, session >>

call_check_tool_availability(Tools, Ws) ==
    /\ Idle
    /\ \E tool \in Tools, w \in Ws :
        /\ last' = [op |-> "check_tool_availability", tool |-> tool,
                    which |-> ConsumedWhich(tool, w),
                    result |-> check_tool_availability(tool, w)]
        /\ childEnv' = hostEnv
        /\ UNCHANGED << platform, hostEnv, fs, session >>

call_run_azure_resource_finder(Ws, Outs) ==
    /\ Idle
    /\ \E w \in Ws, azure_dir_exists \in BOOLEAN, out \in Outs :
        LET r == run_azure_resource_finder(w, azure_dir_exists, out)
        IN  /\ last' = [op |-> "run_azure_resource_finder",
                        which |-> ConsumedWhich("azure-resource-finder", w),
                        azure_dir_exists |-> Consumed("azure-resource-finder", w, azure_dir_exists),
                        out |-> Consumed("azure-resource-finder", w, out),
                        result |-> r.result]
            /\ EnvStep(r)

call_run_ruchy_repl(Ws, Children) ==
    /\ Idle
    /\ \E w \in Ws, child \in Children :
        /\ last' = [op |-> "run_ruchy_repl",
                    which |-> ConsumedWhich("ruchy", w),
                    child |-> Consumed("ruchy", w, child),
                    result |-> run_ruchy_repl(w, child)]
        /\ childEnv' = hostEnv
        /\ UNCHANGED << platform, hostEnv, fs, session >>

call_check_azure_auth_status(Ws, Accts) ==
    /\ Idle
    /\ \E w \in Ws, acct \in Accts :
        LET r == check_azure_auth_status(w, acct)
        IN  /\ last' = [op |-> "check_azure_auth_status",
                        which |-> ConsumedWhich("az", w),
                        acct |-> Consumed("az", w, acct),
                        result |-> r.result]
            /\ EnvStep(r)

call_test_azure_cli(Vers, Accts) ==
    /\ Idle
    /\ \E ver \in Vers, acct \in Accts :
        LET r == test_azure_cli(ver, acct)
        IN  /\ last' = [op |-> "test_azure_cli", ver |-> ver, acct |-> Some(acct), result |-> r.result]
            /\ EnvStep(r)

(***************************************************************************)
(* run_ruchy_repl step by step.  The caller and the subprocess run         *)
(* concurrently and meet in three pipes, each holding at most PipeCapacity *)
(* units: a unit of stdin is one line, a unit of stdout or stderr is one   *)
(* line of output.  A write to a full pipe blocks; a write to a pipe whose *)
(* read end is closed fails.  The subprocess reads a line, writes what the *)
(* line makes it print, and reads the next; it exits on ":quit" or at the  *)
(* end of its stdin.                                                       *)
(***************************************************************************)
Event(kind, arg) == << kind, arg >>

quit_directive == << ":quit" >>

\* the steps of the caller after the spawn, in the order of the code
protocol_QuitFirst == << "write_quit", "write_command", "close_stdin", "wait" >>

protocol == << "write_command", "write_quit", "close_stdin", "wait" >>

step_after(step) ==
    LET i == CHOOSE j \in DOMAIN protocol : protocol[j] = step
    IN  protocol[i + 1]

\* what a write step has to push into stdin, line by line
stdin_payload(step, command) ==
    IF step = "write_command" THEN command
    ELSE IF step = "write_quit" THEN quit_directive
    ELSE << >>

goto(s, step) ==
    [s EXCEPT !.pc = step,
              !.toWrite = stdin_payload(step, s.command),
              !.log = IF step = "wait" THEN Append(@, Event("wait", "")) ELSE @]

\* the bytes of one unit of output
unit_text(stream) ==
    IF stream = "stdout" THEN << "42", NL >> ELSE << "Error:", SP, "division by zero", NL >>

RECURSIVE stream_text(_, _)
stream_text(stream, n) == IF n = 0 THEN << >> ELSE unit_text(stream) \o stream_text(stream, n - 1)

\* the call returns `child` as run_ruchy_repl turns it into a result; the
\* Child value is dropped, which closes the handles it still holds
returns(s, child, outcome) ==
    /\ session' = [s EXCEPT !.pc = "returned", !.handles = {}, !.toWrite = << >>,
                            !.log = Append(@, Event("return", outcome))]
    /\ last' = [op |-> "run_ruchy_repl",
                which |-> ConsumedWhich("ruchy", s.which),
                child |-> Consumed("ruchy", s.which, child),
                result |-> run_ruchy_repl(s.which, child)]

repl_spawn(Commands, Ws) ==
    /\ Idle
    /\ session.pc = "idle"
    /\ session.spawned < MaxSpawns
    /\ \E command \in Commands, w \in Ws, spawn_ok \in BOOLEAN :
        LET which == IF ConsumedWhich("ruchy", w) = None THEN NotSpawned ELSE w
            called == [session EXCEPT !.which = which, !.command = command]
        IN  IF ~Resolved("ruchy", w) \/ ~spawn_ok
            THEN returns(called, ReplChild(FALSE, FALSE, FALSE, FALSE, << >>, << >>), "Err")
            ELSE /\ session' = goto([called EXCEPT
                                        !.spawned = @ + 1,
                                        !.child = [state |-> "reading", pending |-> << >>],
                                        !.handles = {"stdin", "stdout", "stderr"},
                                        !.log = << Event("spawn", "") >>],
                                    protocol[1])
                 /\ UNCHANGED last
    /\ childEnv' = hostEnv
    /\ UNCHANGED << platform, hostEnv, fs >>

\* one line of a write_all; the `?` returns at once when the write fails
repl_write_stdin ==
    /\ session.pc \in {"write_command", "write_quit"}
    /\ IF session.child.state = "exited"
       THEN returns(session,
                    ReplChild(TRUE, session.pc # "write_command", FALSE, FALSE, << >>, << >>),
                    "Err")
       ELSE /\ Len(session.pipes.stdin) < PipeCapacity
            /\ LET wrote == [session EXCEPT
                                !.pipes.stdin = Append(@, Head(session.toWrite)),
                                !.log = Append(@, Event(session.pc, Head(session.toWrite))),
                                !.toWrite = Tail(@)]
               IN  session' = IF wrote.toWrite = << >>
                              THEN goto(wrote, step_after(session.pc))
                              ELSE wrote
            /\ UNCHANGED last
    /\ UNCHANGED << platform, hostEnv, fs, childEnv >>

\* the end of the `if let` block drops the stdin handle
repl_close_stdin ==
    /\ session.pc = "close_stdin"
    /\ session' = goto([session EXCEPT !.handles = @ \ {"stdin"},
                                       !.log = Append(@, Event("close_stdin", ""))],
                       step_after(session.pc))
    /\ UNCHANGED << platform, hostEnv, fs, childEnv, last >>

\* wait_with_output drains stdout and stderr to their end ...
repl_read_output ==
    /\ session.pc = "wait"
    /\ \E stream \in {"stdout", "stderr"} :
        /\ session.pipes[stream] # << >>
        /\ session' = [session EXCEPT !.pipes[stream] = Tail(@),
                                      !.captured[stream] = Append(@, Head(session.pipes[stream]))]
    /\ UNCHANGED << platform, hostEnv, fs, childEnv, last >>

\* ... and then reaps the subprocess
repl_wait_with_output ==
    /\ session.pc = "wait"
    /\ session.child.state = "exited"
    /\ session.pipes.stdout = << >>
    /\ session.pipes.stderr = << >>
    /\ returns([session EXCEPT !.child.state = "reaped",
                               !.log = Append(@, Event("reap", ""))],
               ReplChild(TRUE, TRUE, TRUE, TRUE,
                         stream_text("stdout", Len(session.captured.stdout)),
                         stream_text("stderr", Len(session.captured.stderr))),
               "Ok")
    /\ UNCHANGED << platform, hostEnv, fs, childEnv >>

child_exits(s) ==
    [s EXCEPT !.child = [state |-> "exited", pending |-> << >>],
              !.log = Append(@, Event("exit", ""))]

\* the subprocess takes the next line of its stdin
child_read_stdin(Outputs) ==
    /\ session.child.state = "reading"
    /\ IF session.pipes.stdin # << >>
       THEN LET line == Head(session.pipes.stdin)
                taken == [session EXCEPT !.pipes.stdin = Tail(@)]
            IN  IF line = quit_directive[1]
                THEN session' = child_exits(taken)
                ELSE \E out \in Outputs :
                        session' = [taken EXCEPT
                                       !.child = [state |-> IF out = << >> THEN "reading" ELSE "writing",
                                                  pending |-> out]]
       ELSE /\ "stdin" \notin session.handles
            /\ session' = child_exits(session)
    /\ UNCHANGED << platform, hostEnv, fs, childEnv, last >>

\* the subprocess prints one unit of what it has to print
child_write_output ==
    /\ session.child.state = "writing"
    /\ LET stream == Head(session.child.pending)
           rest == Tail(session.child.pending)
       IN  IF stream \notin session.handles
           THEN session' = child_exits(session)
           ELSE /\ Len(session.pipes[stream]) < PipeCapacity
                /\ session' = [session EXCEPT
                                  !.pipes[stream] = Append(@, stream),
                                  !.child = [state |-> IF rest = << >> THEN "reading" ELSE "writing",
                                             pending |-> rest]]
    /\ UNCHANGED << platform, hostEnv, fs, childEnv, last >>

\* statements of at most n lines; a line is ordinary or reads ":quit"
Statements(n) == SeqsUpTo({"stmt", ":quit"}, n) \ {<< >>}

\* what one line makes the subprocess print, at most n units
Printed(n) == SeqsUpTo({"stdout", "stderr"}, n)

(***************************************************************************)
(* Spec: every entry point, over every process environment.                *)
(***************************************************************************)
UnixInstall == {"/usr/local/bin/azure-resource-finder", "/usr/local/bin/ruchy", "/usr/local/bin/az"}

Init ==
    /\ platform \in Platforms
    /\ hostEnv \in HostEnvs(platform)
    /\ fs \in {{}, UnixInstall}
    /\ last = NoCall
    /\ childEnv = hostEnv
    /\ session = NoSession

CheckToolAvailability == call_check_tool_availability(ToolIds, SmallWhich)

RunAzureResourceFinder == call_run_azure_resource_finder(SmallWhich, SmallFinder)

RunRuchyRepl == call_run_ruchy_repl(SmallWhich, SmallRepl)

CheckAzureAuthStatus == call_check_azure_auth_status(SmallWhich, SmallAccount)

TestAzureCli == call_test_azure_cli({NotSpawned, Exited(TRUE, << "azure-cli 2.0", NL >>, << >>)}, SmallAccount)

ReturnToCaller == return_to_caller

Next ==
    \/ CheckToolAvailability
    \/ RunAzureResourceFinder
    \/ RunRuchyRepl
    \/ CheckAzureAuthStatus
    \/ TestAzureCli
    \/ ReturnToCaller

Spec == Init /\ [][Next]_vars

(***************************************************************************)
(* SpecDiscover: discovery over the installed candidates and the answers   *)
(* of the search utility.                                                  *)
(***************************************************************************)
InitDiscover ==
    /\ platform \in Platforms
    /\ hostEnv = DefaultEnv(platform)
    /\ fs \in InstalledSets(AllCandidates)
    /\ last = NoCall
    /\ childEnv = hostEnv
    /\ session = NoSession

DiscoverTool == call_check_tool_availability(ToolIds, WhichOutcomes)

NextDiscover == DiscoverTool \/ ReturnToCaller

SpecDiscover == InitDiscover /\ [][NextDiscover]_vars

(***************************************************************************)
(* SpecTool: run_azure_resource_finder over the answers of the tool.       *)
(***************************************************************************)
InitTool ==
    /\ platform \in Platforms
    /\ hostEnv = DefaultEnv(platform)
    /\ fs \in {{}, {"/opt/homebrew/bin/azure-resource-finder"}}
    /\ last = NoCall
    /\ childEnv = hostEnv
    /\ session = NoSession

RunTool == call_run_azure_resource_finder(WhichOutcomes, FinderOutcomes(MaxStreamLen))

NextTool == RunTool \/ ReturnToCaller

SpecTool == InitTool /\ [][NextTool]_vars

(***************************************************************************)
(* SpecRepl: run_ruchy_repl over the output of the subprocess.             *)
(***************************************************************************)
InitRepl ==
    /\ platform \in Platforms
    /\ hostEnv = DefaultEnv(platform)
    /\ fs \in {{}, {"/usr/local/bin/ruchy"}}
    /\ last = NoCall
    /\ childEnv = hostEnv
    /\ session = NoSession

RunStatement == call_run_ruchy_repl(SmallWhich, ReplOutcomes(MaxStdoutLines, MaxStderrLines))

NextRepl == RunStatement \/ ReturnToCaller

SpecRepl == InitRepl /\ [][NextRepl]_vars

(***************************************************************************)
(* SpecAuth: the auth diagnosis over the answers of `az account show`.     *)
(***************************************************************************)
InitAuth ==
    /\ platform \in Platforms
    /\ hostEnv = DefaultEnv(platform)
    /\ fs \in {{}, {"/usr/local/bin/az"}}
    /\ last = NoCall
    /\ childEnv = hostEnv
    /\ session = NoSession

AuthStatus == call_check_azure_auth_status(SmallWhich, AccountOutcomes(MaxStreamLen))

TestCli == call_test_azure_cli(VersionOutcomes, AccountOutcomes(MaxStreamLen))

NextAuth == AuthStatus \/ TestCli \/ ReturnToCaller

SpecAuth == InitAuth /\ [][NextAuth]_vars

(***************************************************************************)
(* SpecSession: the exchange of run_ruchy_repl with its subprocess.        *)
(***************************************************************************)
InitSession ==
    /\ platform \in Platforms
    /\ hostEnv = DefaultEnv(platform)
    /\ fs \in {{}, {"/usr/local/bin/ruchy"}}
    /\ last = NoCall
    /\ childEnv = hostEnv
    /\ session = NoSession

Spawn == repl_spawn(Statements(MaxCommandLines), SmallWhich)

WriteStdin == repl_write_stdin

CloseStdin == repl_close_stdin

ReadOutput == repl_read_output

WaitWithOutput == repl_wait_with_output

ChildReads == child_read_stdin(Printed(MaxOutput))

ChildWrites == child_write_output

CallerStep == WriteStdin \/ CloseStdin \/ ReadOutput \/ WaitWithOutput

ChildStep == ChildReads \/ ChildWrites

NextSession == Spawn \/ CallerStep \/ ChildStep \/ ReturnToCaller

SpecSession == InitSession /\ [][NextSession]_vars

(***************************************************************************)
(* Properties.                                                             *)
(***************************************************************************)
Discovered == last.op = "check_tool_availability"

\* C4 as stated: for a tool_id that is not registered, check_tool_availability
\* fails with an error outcome instead of returning a ToolInfo.
C4_UnknownToolIsError ==
    (Discovered /\ last.tool \notin RegisteredTools) => last.result.kind = "Err"

\* C4, amended: for a tool_id that is not registered, check_tool_availability
\* returns normally a ToolInfo with available = false, no path, and the error
\* text "Unknown tool: <tool_id>".
C4_UnknownToolIsReported ==
    (Discovered /\ last.tool \notin RegisteredTools) =>
        /\ last.result.kind = "Ok"
        /\ last.result.val.name = last.tool
        /\ last.result.val.available = FALSE
        /\ last.result.val.path = None
        /\ last.result.val.error = Some(<< "Unknown tool: ", last.tool >>)

C4_Witness == Discovered /\ last.tool = "kubectl" /\ last.result.kind = "Ok"

\* the candidates of a tool that exist, by their place in the list
Installed(tool) == {i \in 1..Len(common_paths(tool)) : common_paths(tool)[i] \in fs}

Ran(op) == last.op = op

EndsWith(s, suffix) == Len(suffix) <= Len(s) /\ SubSeq(s, Len(s) - Len(suffix) + 1, Len(s)) = suffix

\* C5: run_azure_resource_finder returns an error value only when the tool
\* is not resolved or the executable cannot be launched; once launched, it
\* returns a CommandOutput whose success is the exit status, and on a
\* non-zero exit success is false and stderr carries the captured stderr.
C5_NonZeroExitIsData ==
    Ran("run_azure_resource_finder") =>
        LET launched == last.out # None /\ last.out[1].spawned
        IN  /\ last.result.kind = "Err" => ~launched
            /\ launched =>
                /\ last.result.kind = "Ok"
                /\ last.result.val.success = last.out[1].success
                /\ ~last.out[1].success =>
                    EndsWith(last.result.val.stderr, FromUtf8Lossy(last.out[1].stderr))

C5_Witness ==
    /\ Ran("run_azure_resource_finder")
    /\ last.out # None
    /\ last.out[1].spawned
    /\ ~last.out[1].success
    /\ last.out[1].stderr = << "text", "<invalid>" >>
    /\ last.result.kind = "Ok"

\* a call whose `az account show` was launched and failed
AccountFailed ==
    /\ Ran("check_azure_auth_status") \/ Ran("test_azure_cli")
    /\ last.acct # None
    /\ last.acct[1].spawned
    /\ ~last.acct[1].success

Marker(m) == Contains(FromUtf8Lossy(last.acct[1].stderr), << m >>)

\* C6 as stated: first match among the three markers on stderr; with no
\* marker, "Unexpected output ..." when stdout or stderr is non-empty and
\* "Unknown authentication error." when both are empty.
C6_GenericFallback ==
    AccountFailed =>
        last.result.val.error =
            IF Marker("Please run 'az login'")
            THEN << "User not authenticated. Please run 'az login' in your terminal." >>
            ELSE IF Marker("No subscriptions found")
            THEN << "Authenticated but no subscriptions found. Please check your Azure account." >>
            ELSE IF Marker("DefaultAzureCredential")
            THEN << "Authentication failed. Please ensure you are logged in with 'az login'." >>
            ELSE IF last.acct[1].stderr # << >> \/ last.acct[1].stdout # << >>
            THEN << "Unexpected output during authentication check." >>
            ELSE << "Unknown authentication error." >>

\* C6, amended: first match among the three markers on stderr; with no
\* marker, "Authentication error: " followed by stderr when stderr is
\* non-empty, otherwise "Unexpected output ..." when stdout is non-empty,
\* otherwise "Unknown authentication error.".
C6_OrderedDiagnosis ==
    AccountFailed =>
        last.result.val.error =
            IF Marker("Please run 'az login'")
            THEN << "User not authenticated. Please run 'az login' in your terminal." >>
            ELSE IF Marker("No subscriptions found")
            THEN << "Authenticated but no subscriptions found. Please check your Azure account." >>
            ELSE IF Marker("DefaultAzureCredential")
            THEN << "Authentication failed. Please ensure you are logged in with 'az login'." >>
            ELSE IF last.acct[1].stderr # << >>
            THEN << "Authentication error: " >> \o FromUtf8Lossy(last.acct[1].stderr)
            ELSE IF last.acct[1].stdout # << >>
            THEN << "Unexpected output during authentication check." >>
            ELSE << "Unknown authentication error." >>

C6_Witness ==
    /\ AccountFailed
    /\ Marker("Please run 'az login'")
    /\ Marker("No subscriptions found")
    /\ last.result.val.error = << "User not authenticated. Please run 'az login' in your terminal." >>

\* a call that built the mapping for its child; childEnv is that mapping
EnvBuilt ==
    \/ Ran("run_azure_resource_finder") /\ last.out # None
    \/ Ran("check_azure_auth_status") /\ last.acct # None
    \/ Ran("test_azure_cli")

RECURSIVE SplitOn(_, _, _)
\* the pieces of s between the separators
SplitOn(s, sep, cur) ==
    IF s = << >> THEN << cur >>
    ELSE IF Head(s) = sep THEN << cur >> \o SplitOn(Tail(s), sep, << >>)
    ELSE SplitOn(Tail(s), sep, Append(cur, Head(s)))

\* the entries of a PATH value
PathEntries(path) == SplitOn(path, path_separator[1], << >>)

Occurrences(entries, dir) == Cardinality({i \in DOMAIN entries : entries[i] = dir})

\* C7: the PATH handed to the child has every well-known bin directory of
\* the platform as an entry, and a directory that is an entry of the base
\* PATH is not appended again.
C7_EveryDirIsEntry ==
    EnvBuilt =>
        LET base == PathEntries(current_path(hostEnv))
            new == PathEntries(childEnv["PATH"])
        IN  \A i \in DOMAIN common_bin_paths :
                LET dir == common_bin_paths[i]
                IN  /\ Occurrences(new, dir) >= 1
                    /\ Occurrences(base, dir) >= 1 => Occurrences(new, dir) = Occurrences(base, dir)

\* C8: augmenting the PATH handed to the child once more changes nothing.
C8_AugmentIdempotent ==
    EnvBuilt =>
        /\ augment_path(childEnv["PATH"]) = childEnv["PATH"]
        /\ build_env(childEnv)["PATH"] = childEnv["PATH"]

C8_Witness ==
    /\ EnvBuilt
    /\ \E i, j \in DOMAIN common_bin_paths :
        /\ Contains(current_path(hostEnv), common_bin_paths[i])
        /\ ~Contains(current_path(hostEnv), common_bin_paths[j])
    /\ childEnv["PATH"] # current_path(hostEnv)

\* C9: no step of any entry point changes the process environment; the
\* extended PATH and AZURE_CONFIG_DIR are in the mapping of the child only.
C9_HostEnvUnchanged == [][hostEnv' = hostEnv]_vars

C9_Witness ==
    /\ EnvBuilt
    /\ "AZURE_CONFIG_DIR" \in DOMAIN hostEnv
    /\ childEnv["AZURE_CONFIG_DIR"] # hostEnv["AZURE_CONFIG_DIR"]
    /\ childEnv["PATH"] # current_path(hostEnv)

\* a call of run_ruchy_repl whose subprocess ran to its end
ReplRan == Ran("run_ruchy_repl") /\ last.child # None /\ last.result.kind = "Ok"

OutputLines == Lines(combined_output(last.child[1]))

NotNoise(line) == ~is_noise(line)

\* the lines that are not noise, in order
Retained == SelectSeq(OutputLines, NotNoise)

\* the text after the sentinel prefix, trimmed
TrailingValue(line) == Trim(SubSeq(line, Len(return_sentinel) + 1, Len(line)))

Rewritten(line) == IF StartsWith(line, return_sentinel) THEN TrailingValue(line) ELSE line

RewrittenAll(ls) == [i \in DOMAIN ls |-> Rewritten(ls[i])]

\* a retained sentinel line whose trailing value holds the prefix once more
RepeatsSentinel(line) == StartsWith(line, return_sentinel) /\ Contains(TrailingValue(line), return_sentinel)

\* C1: every retained sentinel line appears in the filtered stdout as its
\* trailing value (lines whose value repeats the prefix left aside), and when
\* the first retained line is a sentinel line the result has success = true,
\* whatever the value and whichever stream.
C1_ReturnSentinelSucceeds ==
    ReplRan =>
        /\ (\A i \in DOMAIN Retained : ~RepeatsSentinel(Retained[i])) =>
               last.result.val.stdout = Trim(Join(RewrittenAll(Retained), << NL >>))
        /\ (Retained # << >> /\ StartsWith(Retained[1], return_sentinel)) => last.result.val.success

\* C2: when the first retained line begins with "Error:" and is not a
\* sentinel line, it is kept verbatim (up to the trimming of the joined text)
\* and the result has success = false, whatever the other lines are.
C2_GenuineErrorFails ==
    ReplRan =>
        ((Retained # << >> /\ StartsWith(Retained[1], << "Error:" >>)
                           /\ ~StartsWith(Retained[1], return_sentinel)) =>
            /\ StartsWith(last.result.val.stdout, Trim(Retained[1]))
            /\ ~last.result.val.success)

\* the noise of C3: a banner line, a prompt line, a blank line
IsBannerOrBlank(line) ==
    \/ StartsWith(line, << "Welcome to Ruchy REPL" >>)
    \/ StartsWith(line, << "Type :help" >>)
    \/ StartsWith(line, << "Goodbye!" >>)
    \/ StartsWith(line, << "ruchy>" >>)
    \/ Trim(line) = << >>

NotBannerOrBlank(line) == ~IsBannerOrBlank(line)

\* C3: the filtered stdout is made of exactly the lines that are not banner,
\* prompt or blank lines, in order, each unchanged unless it is a sentinel
\* line; a line that only contains a banner phrase is kept.
C3_OnlyNoiseRemoved ==
    ReplRan =>
        last.result.val.stdout =
            Trim(Join(RewrittenAll(SelectSeq(OutputLines, NotBannerOrBlank)), << NL >>))

(***************************************************************************)
(* The exchange of run_ruchy_repl with its subprocess.                     *)
(***************************************************************************)
InCall == session.pc \notin {"idle"}

ReturnedOk == session.pc = "returned" /\ last.result.kind = "Ok"

IsPrefix(p, q) == Len(p) <= Len(q) /\ SubSeq(q, 1, Len(p)) = p

IsCallerEvent(e) == e[1] # "exit"

CallerEvents == SelectSeq(session.log, IsCallerEvent)

\* what the caller does in a successful call, in order
WritesOf(command) == [i \in DOMAIN command |-> Event("write_command", command[i])]

ExpectedExchange ==
    << Event("spawn", "") >> \o WritesOf(session.command) \o
    << Event("write_quit", ":quit"), Event("close_stdin", ""), Event("wait", ""),
       Event("reap", ""), Event("return", "Ok") >>

IsErrReturn(e) == e = Event("return", "Err")

NotErrReturn(e) == ~IsErrReturn(e)

ExitedBeforeReap ==
    \E i, j \in DOMAIN session.log :
        i < j /\ session.log[i] = Event("exit", "") /\ session.log[j] = Event("reap", "")

\* C11: what the caller has done in a call is at every moment a beginning of:
\* spawn a subprocess, write the lines of the one statement, write ":quit",
\* close stdin, wait, reap, return; a call that returns a result has done all
\* of it, in this order, on the subprocess it spawned in this call, and the
\* subprocess exited before the call reaped it and returned.
C11_ExchangeOrder ==
    InCall =>
        /\ IsPrefix(SelectSeq(CallerEvents, NotErrReturn), ExpectedExchange)
        /\ ReturnedOk =>
            /\ CallerEvents = ExpectedExchange
            /\ ExitedBeforeReap
            /\ session.child.state = "reaped"

C11_Witness ==
    /\ ReturnedOk
    /\ Len(session.command) = MaxCommandLines
    /\ session.captured.stdout # << >>
    /\ session.spawned = MaxSpawns

\* C12 as stated: when run_ruchy_repl has returned, on whichever path, the
\* subprocess it spawned (if any) has exited and been reaped, and none of its
\* stdin/stdout/stderr handles is open.
C12_ReleasedOnReturn ==
    session.pc = "returned" =>
        /\ session.child.state \in {"none", "reaped"}
        /\ session.handles = {}

\* C13 as stated, in its finite form: while a call of run_ruchy_repl is under
\* way against a subprocess that reads its stdin line by line, prints, and
\* exits on ":quit", the caller or the subprocess can take a step; the
\* exchange never stops short of the return.
C13_NoDeadlock ==
    session.pc \in {"idle", "returned"} \/ ENABLED (CallerStep \/ ChildStep)

====
